---- MODULE Spec2Model ----
(***************************************************************************)
(* Model of the interactive BLE GATT client (app.py) and of the battery    *)
(* reader (read_battery.py).  Text is a sequence of one-character strings, *)
(* bytes are integers 0..255, a Python dict is a function on its key set.  *)
(***************************************************************************)
EXTENDS Integers, Sequences, FiniteSets, TLC

\* ---------------------------------------------------------------- bounds
MaxScans == 2
MaxSignals == 2
MaxServices == 2
MaxTok == 3

\* Python's None where an object may stand: the empty tuple, and Some(x) for
\* an object x.
None == <<>>

Some(x) == <<x>>

\* None as the name of a device that advertises none.
NoName == "<None>"

\* ------------------------------------------------------------------ text
\* str.isspace for one character
IsSpace(c) == c \in {" ", "\t"}

\* str.lower, character by character
LowerChar(c) ==
    CASE c = "Q" -> "q"
      [] c = "S" -> "s"
      [] c = "Y" -> "y"
      [] c = "A" -> "a"
      [] c = "Z" -> "z"
      [] c = "X" -> "x"
      [] OTHER -> c

Lower(s) == [i \in 1..Len(s) |-> LowerChar(s[i])]

RECURSIVE LStrip(_)
LStrip(s) == IF s # <<>> /\ IsSpace(Head(s)) THEN LStrip(Tail(s)) ELSE s

RECURSIVE RStrip(_)
RStrip(s) ==
    IF s # <<>> /\ IsSpace(s[Len(s)]) THEN RStrip(SubSeq(s, 1, Len(s) - 1)) ELSE s

Strip(s) == RStrip(LStrip(s))

\* str.split() without arguments: runs of whitespace separate the tokens and
\* no empty token is produced.  cur is the token being collected.
RECURSIVE SplitFrom(_, _)
SplitFrom(s, cur) ==
    IF s = <<>> THEN (IF cur = <<>> THEN <<>> ELSE <<cur>>)
    ELSE IF IsSpace(Head(s))
         THEN (IF cur = <<>> THEN <<>> ELSE <<cur>>) \o SplitFrom(Tail(s), <<>>)
         ELSE SplitFrom(Tail(s), Append(cur, Head(s)))

Split(s) == SplitFrom(s, <<>>)

DigitChars == {"0", "1", "2", "3", "4", "5", "6", "7", "8", "9"}

DigitVal(c) ==
    CASE c = "0" -> 0 [] c = "1" -> 1 [] c = "2" -> 2 [] c = "3" -> 3
      [] c = "4" -> 4 [] c = "5" -> 5 [] c = "6" -> 6 [] c = "7" -> 7
      [] c = "8" -> 8 [] c = "9" -> 9

RECURSIVE DigitsValue(_, _)
DigitsValue(s, acc) ==
    IF s = <<>> THEN acc ELSE DigitsValue(Tail(s), 10 * acc + DigitVal(Head(s)))

\* int(str): surrounding whitespace is ignored, one optional sign, then at
\* least one decimal digit; anything else raises ValueError (ok = FALSE).
ParseInt(s) ==
    LET t == Strip(s)
        neg == t # <<>> /\ Head(t) = "-"
        body == IF t # <<>> /\ Head(t) \in {"+", "-"} THEN Tail(t) ELSE t
    IN IF body # <<>> /\ \A i \in 1..Len(body) : body[i] \in DigitChars
       THEN [ok |-> TRUE,
             val |-> IF neg THEN 0 - DigitsValue(body, 0) ELSE DigitsValue(body, 0)]
       ELSE [ok |-> FALSE, val |-> 0]

HexChars == DigitChars \cup {"a", "b", "c", "d", "e", "f", "A", "B", "C", "D", "E", "F"}

HexVal(c) ==
    CASE c \in DigitChars -> DigitVal(c)
      [] c \in {"a", "A"} -> 10 [] c \in {"b", "B"} -> 11 [] c \in {"c", "C"} -> 12
      [] c \in {"d", "D"} -> 13 [] c \in {"e", "E"} -> 14 [] c \in {"f", "F"} -> 15

\* bytearray.fromhex on a token (no whitespace inside): pairs of hexadecimal
\* digits; an odd length or any other character raises ValueError.
FromHexMutLowNibble(s) ==
    IF Len(s) % 2 = 0 /\ \A i \in 1..Len(s) : s[i] \in HexChars
    THEN [ok |-> TRUE,
          bytes |-> [k \in 1..(Len(s) \div 2) |-> HexVal(s[2 * k])]]
    ELSE [ok |-> FALSE, bytes |-> <<>>]

FromHexMutLenient(s) ==
    LET n == Len(s) \div 2
    IN [ok |-> TRUE,
        bytes |-> [k \in 1..n |->
                     (IF s[2 * k - 1] \in HexChars THEN 16 * HexVal(s[2 * k - 1]) ELSE 0)
                   + (IF s[2 * k] \in HexChars THEN HexVal(s[2 * k]) ELSE 0)]]

FromHex(s) ==
    IF Len(s) % 2 = 0 /\ \A i \in 1..Len(s) : s[i] \in HexChars
    THEN [ok |-> TRUE,
          bytes |-> [k \in 1..(Len(s) \div 2) |->
                        16 * HexVal(s[2 * k - 1]) + HexVal(s[2 * k])]]
    ELSE [ok |-> FALSE, bytes |-> <<>>]

\* str.encode('utf-8'), for the characters of the model's alphabet; the last
\* two are outside ASCII and take two and three bytes.
Utf8Char(c) ==
    CASE c = "0" -> <<48>> [] c = "1" -> <<49>> [] c = "2" -> <<50>>
      [] c = "4" -> <<52>> [] c = "7" -> <<55>> [] c = "x" -> <<120>>
      [] c = "A" -> <<65>> [] c = "Z" -> <<90>> [] c = "a" -> <<97>>
      [] c = "-" -> <<45>> [] c = "e_acute" -> <<195, 169>>
      [] c = "euro_sign" -> <<226, 130, 172>>

RECURSIVE EncodeUtf8(_)
EncodeUtf8(s) == IF s = <<>> THEN <<>> ELSE Utf8Char(Head(s)) \o EncodeUtf8(Tail(s))

HexDigit(n) ==
    CASE n = 0 -> "0" [] n = 1 -> "1" [] n = 2 -> "2" [] n = 3 -> "3"
      [] n = 4 -> "4" [] n = 5 -> "5" [] n = 6 -> "6" [] n = 7 -> "7"
      [] n = 8 -> "8" [] n = 9 -> "9" [] n = 10 -> "a" [] n = 11 -> "b"
      [] n = 12 -> "c" [] n = 13 -> "d" [] n = 14 -> "e" [] n = 15 -> "f"

\* bytes.hex(): two lowercase hexadecimal digits per byte
RECURSIVE Hex(_)
Hex(b) ==
    IF b = <<>> THEN <<>>
    ELSE <<HexDigit(Head(b) \div 16), HexDigit(Head(b) % 16)>> \o Hex(Tail(b))

StartsWith0x(s) == Len(s) >= 2 /\ s[1] = "0" /\ s[2] = "x"

\* The value of a write command (lines 114-118): the bytes to send, or
\* ValueError (ok = FALSE) from the hexadecimal decoding.
WriteValue(val_str) ==
    IF StartsWith0x(val_str)
    THEN FromHex(SubSeq(val_str, 3, Len(val_str)))
    ELSE [ok |-> TRUE, bytes |-> EncodeUtf8(val_str)]

\* --------------------------------------------------------------- devices
\* BLEDevice: name is None for a device that advertises no name.
Thermo == [name |-> "Thermo", address |-> "AA:BB"]
Lock == [name |-> "Lock", address |-> "CC:DD"]
Anon == [name |-> NoName, address |-> "11:22"]

\* What BleakScanner.discover may return.
ScanResults ==
    {<<>>, <<Anon>>, <<Thermo, Lock>>, <<Lock, Anon, Thermo>>}

\* Python truth of a device name: None and the empty string are false.
Truthy(name) == name # NoName /\ name # ""

\* named_devices of select_device (line 30): the devices with a name, in
\* scan order.
RECURSIVE NamedDevices(_)
NamedDevices(devices) ==
    IF devices = <<>> THEN <<>>
    ELSE (IF Truthy(Head(devices).name) THEN <<Head(devices)>> ELSE <<>>)
         \o NamedDevices(Tail(devices))

\* ------------------------------------------------------- the GATT server
\* A service is described by the property sets of its characteristics, in
\* the order the session exposes them.
ServiceKinds ==
    { <<{"notify"}>>,
      <<{"write"}>>,
      <<{"indicate"}, {"read", "write-without-response"}>> }

RECURSIVE SeqsUpTo(_, _)
SeqsUpTo(S, n) ==
    IF n = 0 THEN {<<>>}
    ELSE LET shorter == SeqsUpTo(S, n - 1)
         IN shorter \cup {Append(q, x) : q \in shorter, x \in S}

\* client.services: each characteristic is an object of its own, identified
\* by its place in the tree; uuids repeat across services.
MakeService(si, kind) ==
    [uuid |-> <<"service", si>>,
     characteristics |->
        [ci \in 1..Len(kind) |->
            [id |-> <<si, ci>>, uuid |-> <<"char", ci>>, properties |-> kind[ci]]]]

MakeTree(kinds) == [si \in 1..Len(kinds) |-> MakeService(si, kinds[si])]

Trees == {MakeTree(k) : k \in SeqsUpTo(ServiceKinds, MaxServices)}

\* rw_chars (line 76)
IsRW(c) == c.properties \cap {"read", "write", "write-without-response"} # {}

RECURSIVE FilterRW(_)
FilterRW(chars) ==
    IF chars = <<>> THEN <<>>
    ELSE (IF IsRW(Head(chars)) THEN <<Head(chars)>> ELSE <<>>) \o FilterRW(Tail(chars))

RwChars(service) == FilterRW(service.characteristics)

\* A service is listed when it has a readable or writable characteristic
\* or verbose is on (line 77).
Printed(service, verb) == RwChars(service) # <<>> \/ verb

\* dict assignment d[k] = v
DictSet(d, k, v) == [x \in DOMAIN d \cup {k} |-> IF x = k THEN v ELSE d[x]]

EmptyDict == [x \in {} |-> 0]

\* The inner loop (lines 79-83) over one service's characteristics; st is
\* [map, idx] = (char_map, current_char_index).
RECURSIVE AddChars(_, _)
AddChars(chars, st) ==
    IF chars = <<>> THEN st
    ELSE AddChars(Tail(chars),
                  [map |-> DictSet(st.map, st.idx, Head(chars)), idx |-> st.idx + 1])

\* The outer loop with the ordinal advanced for the characteristics of a
\* service that is not listed, though they get no entry.
RECURSIVE AddServicesCountAll(_, _, _)
AddServicesCountAll(services, verb, st) ==
    IF services = <<>> THEN st
    ELSE AddServicesCountAll(Tail(services), verb,
                     IF Printed(Head(services), verb)
                     THEN AddChars(Head(services).characteristics, st)
                     ELSE [map |-> st.map,
                           idx |-> st.idx + Len(Head(services).characteristics)])

\* The outer loop with only the readable or writable characteristics of a
\* listed service entered.
RECURSIVE AddServicesRwOnly(_, _, _)
AddServicesRwOnly(services, verb, st) ==
    IF services = <<>> THEN st
    ELSE AddServicesRwOnly(Tail(services), verb,
                     IF Printed(Head(services), verb)
                     THEN AddChars(RwChars(Head(services)), st)
                     ELSE st)

\* The outer loop (lines 74-83) over client.services.
RECURSIVE AddServices(_, _, _)
AddServices(services, verb, st) ==
    IF services = <<>> THEN st
    ELSE AddServices(Tail(services), verb,
                     IF Printed(Head(services), verb)
                     THEN AddChars(Head(services).characteristics, st)
                     ELSE st)

\* Lines 71-83: char_map once the traversal is over.
BuildCatalog(services, verb) ==
    AddServices(services, verb, [map |-> EmptyDict, idx |-> 1]).map

\* a lookup that lands on the entry after the one asked for
DictGetNext(d, k) == IF k + 1 \in DOMAIN d THEN Some(d[k + 1]) ELSE None

\* dict.get(k): None when the key is missing
DictGet(d, k) == IF k \in DOMAIN d THEN Some(d[k]) ELSE None

\* ------------------------------------------------------- operator input
Join2(a, b) == a \o <<" ">> \o b

Join3(a, b, c) == Join2(Join2(a, b), c)

HelpWord == <<"h", "e", "l", "p">>
ListWord == <<"l", "i", "s", "t">>
QuitWord == <<"q", "u", "i", "t">>
ReadWord == <<"r", "e", "a", "d">>
WriteWord == <<"w", "r", "i", "t", "e">>

\* Lines typed at the selection prompt (line 44).
SelLines ==
    { <<"q">>, <<"Q">>, <<"s">>, <<"S">>, <<"0">>, <<"1">>, <<"2">>, <<"-", "1">>,
      <<"x">>, <<>> }

OrdinalTokens == { <<"1">>, <<"7">>, <<"-", "1">>, <<"x">> }

ValueTokens ==
    { <<"A">>, <<"0", "x", "4", "1">>, <<"0", "x", "Z", "Z">>, <<"0", "x", "4">> }

\* Lines typed at the session prompt (line 87).
CmdLines ==
    { <<>>, <<" ">>, HelpWord, ListWord, QuitWord, <<"x">>, <<" ">> \o HelpWord,
      ReadWord, WriteWord, Join2(WriteWord, <<"1">>),
      Join3(WriteWord, <<"7">>, <<"0", "x", "Z", "Z">>),
      Join3(WriteWord, <<"1">>, <<"A">>) \o <<" ", "Z">> }
    \cup {Join2(ReadWord, n) : n \in OrdinalTokens}
    \cup {Join3(WriteWord, <<"1">>, v) : v \in ValueTokens}

\* Lines typed at the "Connect to another device?" prompt (line 148).
AgainLines == { <<"y">>, <<"Y">>, <<"n">>, <<>> }

\* ------------------------------------------------------------- messages
MsgNoNamed == "No named devices found. Try again or check BLE device visibility."
MsgInvalidNumberRetry == "Invalid number, please try again."
MsgInvalidInput == "Invalid input, please enter a number."
MsgHelp == "Commands: read <num> | write <num> <value> | list | quit"
MsgList == "Use the numbers listed above to interact with characteristics."
MsgInvalidChar == "Invalid characteristic number."
MsgNeedsValue == "Write command needs a value."
MsgInvalidNumber == "Invalid number."
MsgError == "An error occurred"
MsgUnknown == "Unknown command. Type 'help'."
MsgValue == "Value"
MsgWrote == "Wrote"
MsgCancelled == "Connection task cancelled."
MsgFailed == "Failed to connect or an error occurred"
MsgDisconnected == "Disconnected."

\* ---------------------------------------------------------------- state
VARIABLES
    pc,              \* where the task running main() is suspended
    shutdown_event,  \* the global asyncio.Event (line 9)
    verbose,         \* args.verbose
    loop,            \* "running" until loop.stop()
    frames,          \* named_devices of each select_device activation at its prompt
    devices,         \* result of the latest BleakScanner.discover
    scans,           \* discoveries started by the select_device call in progress
    selection,       \* the latest line read at the selection prompt, until the
                     \* connect it led to is over
    device,          \* what select_device returned to main
    services,        \* client.services of the connected client
    is_connected,    \* client.is_connected: the link the session's client holds
    char_map,        \* the catalog (line 71)
    cmd_input,       \* the latest line read at the session prompt
    pending,         \* the device request the session is waiting for
    exc,             \* exception in flight while __aexit__ disconnects
    cause,           \* why control left the body of the async with
    ended,           \* which handler of the try (lines 66-133) ended the session
    disconnects,     \* disconnect attempts of this session
    out,             \* what the latest step of main() printed
    gs,              \* state of each graceful_shutdown task, in creation order
    waits,           \* the tasks each graceful_shutdown task gathers (line 20)
    cancels,         \* tasks with a CancelledError still to be delivered
    enc,             \* value encodings under comparison
    bat              \* the battery reader (read_battery.py): its locals and position

selVars == <<frames, devices, scans, selection, device>>
sessVars ==
    <<services, is_connected, char_map, cmd_input, pending, exc, cause, ended,
      disconnects>>
sigVars == <<gs, waits, cancels>>
vars == <<pc, shutdown_event, verbose, loop, selVars, sessVars, out, sigVars, enc, bat>>

MainTask == 0

\* The task of main() has finished: returned, cancelled, or died of an error.
MainFinished == pc \in {"done", "cancelled", "crashed"}

\* The task of main() may take its next step: the loop runs and no
\* CancelledError is waiting to be thrown into it.
MainRuns == loop = "running" /\ MainTask \notin cancels

NoSession ==
    /\ services = <<>>
    /\ is_connected = FALSE
    /\ char_map = EmptyDict
    /\ cmd_input = None
    /\ pending = None
    /\ exc = "none"
    /\ cause = "none"
    /\ ended = "none"
    /\ disconnects = 0

InitApp ==
    /\ pc = "start"
    /\ shutdown_event = FALSE
    /\ verbose \in BOOLEAN
    /\ loop = "running"
    /\ frames = <<>>
    /\ devices = <<>>
    /\ scans = 0
    /\ selection = None
    /\ device = None
    /\ NoSession
    /\ out = <<>>
    /\ gs = <<>>
    /\ waits = <<>>
    /\ cancels = {}

Init == InitApp /\ enc = None /\ bat = None

\* ------------------------------------------------------------- main()
\* line 152 reached with a further prompt still to come
MainExitAsks ==
    /\ shutdown_event' = TRUE
    /\ pc' = "again_prompt"

\* line 152 as a toggle of the event rather than a set
MainExitToggles ==
    /\ shutdown_event' = ~shutdown_event
    /\ pc' = "final_sleep"

\* Lines 152-154: after the loop main() sets the event and sleeps.
MainExit ==
    /\ shutdown_event' = TRUE
    /\ pc' = "final_sleep"

\* select_device returned None to line 140: main() breaks (lines 141-142).
SelectReturnsNone ==
    /\ frames' = <<>>
    /\ devices' = <<>>
    /\ scans' = 0
    /\ device' = None
    /\ MainExit

\* The locals of explore_and_interact at its start, and once main() has moved
\* on from the session.
ResetSession ==
    /\ services' = <<>>
    /\ is_connected' = FALSE
    /\ char_map' = EmptyDict
    /\ cmd_input' = None
    /\ pending' = None
    /\ exc' = "none"
    /\ cause' = "none"
    /\ ended' = "none"
    /\ disconnects' = 0

\* main() is past the session and will start no other: the locals of
\* explore_and_interact are gone, the link its client opened stays as the
\* session left it.
ForgetSession ==
    /\ services' = <<>>
    /\ char_map' = EmptyDict
    /\ cmd_input' = None
    /\ pending' = None
    /\ exc' = "none"
    /\ cause' = "none"
    /\ ended' = "none"
    /\ disconnects' = 0
    /\ UNCHANGED is_connected

\* First step of main(): the loop test of line 139, then select_device
\* starts its discovery (lines 26-27).
MainStart ==
    /\ pc = "start"
    /\ MainRuns
    /\ IF ~shutdown_event
       THEN /\ pc' = "scan"
            /\ scans' = scans + 1
            /\ out' = <<"Scanning for devices...">>
            /\ UNCHANGED shutdown_event
       ELSE /\ MainExit
            /\ out' = <<>>
            /\ UNCHANGED scans
    /\ UNCHANGED <<verbose, loop, frames, devices, selection, device, sessVars,
                   sigVars, enc, bat>>

\* list[i] as Python indexes a list: a negative index counts from the end.
PyIndex(list, i) == IF i >= 0 THEN list[i + 1] ELSE list[Len(list) + i + 1]

\* The range test of line 51.
InRangeNoLowerBound(device_index, n) == device_index < n /\ 0 - n <= device_index

InRange(device_index, n) == 0 <= device_index /\ device_index < n

\* The list an index is resolved against: named_devices of the activation
\* that read the line, the innermost one.
CurrentListOutermost(stack) == stack[1]

CurrentList(stack) == stack[Len(stack)]

\* Line 144 and line 64: main() got a device and the session starts to
\* connect.
StartSession(d) ==
    /\ device' = Some(d)
    /\ frames' = <<>>
    /\ devices' = <<>>
    /\ scans' = 0
    /\ pc' = "connect"
    /\ ResetSession
    /\ UNCHANGED shutdown_event

\* BleakScanner.discover returned (line 27); lines 30-41.
ScanDone ==
    /\ pc = "scan"
    /\ MainRuns
    /\ \E result \in ScanResults :
         LET named_devices == NamedDevices(result)
         IN IF named_devices = <<>>
            THEN /\ out' = <<MsgNoNamed>>
                 /\ SelectReturnsNone
            ELSE /\ out' = <<"Please select a device:">>
                 /\ IF ~shutdown_event
                    THEN /\ frames' = Append(frames, named_devices)
                         /\ devices' = result
                         /\ pc' = "sel_prompt"
                         /\ UNCHANGED <<shutdown_event, scans, device>>
                    ELSE SelectReturnsNone
    /\ UNCHANGED <<verbose, loop, selection, sessVars, sigVars, enc, bat>>

\* BleakScanner.discover raised (adapter unavailable): no activation of
\* select_device handles it (lines 55-58 catch ValueError and CancelledError
\* only) and neither does main(), so the task of main() dies.
ScanFail ==
    /\ pc = "scan"
    /\ MainRuns
    /\ pc' = "crashed"
    /\ frames' = <<>>
    /\ devices' = <<>>
    /\ out' = <<>>
    /\ UNCHANGED <<shutdown_event, verbose, loop, scans, selection, device, sessVars,
                   sigVars, enc, bat>>

\* One line read at the selection prompt (lines 44-56).
SelectInput(line) ==
    /\ pc = "sel_prompt"
    /\ MainRuns
    /\ selection' = Some(line)
    /\ IF Lower(line) = <<"q">>
       THEN /\ out' = <<>>
            /\ SelectReturnsNone
            /\ UNCHANGED sessVars
       ELSE IF Lower(line) = <<"s">>
       THEN /\ scans < MaxScans
            /\ pc' = "scan"
            /\ scans' = scans + 1
            /\ out' = <<"Scanning for devices...">>
            /\ UNCHANGED <<shutdown_event, frames, devices, device, sessVars>>
       ELSE LET n == ParseInt(line)
                named_devices == CurrentList(frames)
            IN IF n.ok /\ InRange(n.val, Len(named_devices))
               THEN /\ StartSession(PyIndex(named_devices, n.val))
                    /\ out' = <<"Connecting">>
               ELSE /\ out' = <<IF n.ok THEN MsgInvalidNumberRetry
                                          ELSE MsgInvalidInput>>
                    /\ IF ~shutdown_event
                       THEN UNCHANGED <<pc, shutdown_event, frames, devices, scans, device>>
                       ELSE SelectReturnsNone
                    /\ UNCHANGED sessVars
    /\ UNCHANGED <<verbose, loop, sigVars, enc, bat>>

\* ------------------------------------------------ explore_and_interact()
\* main() leaving its loop after a session without asking.
AfterSessionBreak == MainExit

\* main() asking whether to go on without looking at the event.
AfterSessionAsks == pc' = "again_prompt" /\ UNCHANGED shutdown_event

\* Lines 147-150 and the loop test of line 139 once explore_and_interact has
\* returned.
AfterSession ==
    IF ~shutdown_event
    THEN pc' = "again_prompt" /\ UNCHANGED shutdown_event
    ELSE MainExit

\* The try statement of lines 66-133 is left through `how`; line 135 prints
\* and the function returns to main().
SessionOver(how) ==
    /\ ended' = how
    /\ out' = (CASE how = "cancelled" -> <<MsgCancelled>>
                  [] how = "failed" -> <<MsgFailed>>
                  [] OTHER -> <<>>) \o <<MsgDisconnected>>
    /\ exc' = "none"
    /\ pending' = None
    /\ AfterSession

\* Control leaves the body of the async with (line 67) with exception e in
\* flight ("none" for a normal exit): BleakClient.__aexit__ awaits
\* disconnect().
LeaveBody(e, why) ==
    /\ pc' = "aexit"
    /\ exc' = e
    /\ cause' = why
    /\ disconnects' = disconnects + 1
    /\ pending' = None
    /\ UNCHANGED <<shutdown_event, ended>>

\* The loop test with the event alone looked at.
LoopCheckEventOnly ==
    IF ~shutdown_event
    THEN /\ pc' = "cmd_prompt"
         /\ pending' = None
         /\ UNCHANGED <<shutdown_event, exc, cause, ended, disconnects>>
    ELSE LeaveBody("none", "cancel")

\* The loop test of line 86.
LoopCheck ==
    IF is_connected /\ ~shutdown_event
    THEN /\ pc' = "cmd_prompt"
         /\ pending' = None
         /\ UNCHANGED <<shutdown_event, exc, cause, ended, disconnects>>
    ELSE LeaveBody("none", IF ~is_connected THEN "disconnect" ELSE "cancel")

\* BleakClient.__aenter__ connected (line 67); the catalog is built (lines
\* 71-83) and the command loop is entered (line 86).
ConnectOk ==
    /\ pc = "connect"
    /\ MainRuns
    /\ \E tree \in Trees :
         /\ services' = tree
         /\ char_map' = BuildCatalog(tree, verbose)
    /\ is_connected' = TRUE
    /\ out' = <<"Connected. Type 'help' for commands.">>
    /\ IF ~shutdown_event
       THEN /\ pc' = "cmd_prompt"
            /\ UNCHANGED <<shutdown_event, exc, cause, ended, disconnects, pending>>
       ELSE LeaveBody("none", "cancel")
    /\ selection' = None
    /\ UNCHANGED <<verbose, loop, frames, devices, scans, device, cmd_input,
                   sigVars, enc, bat>>

\* BleakClient.__aenter__ raised: the handler of line 132 reports it.
ConnectFail ==
    /\ pc = "connect"
    /\ MainRuns
    /\ SessionOver("failed")
    /\ selection' = None
    /\ UNCHANGED <<verbose, loop, frames, devices, scans, device, services,
                   is_connected, char_map, cmd_input, cause, disconnects, sigVars,
                   enc, bat>>

\* Lines 99-126 up to the device request: what a read or write command
\* comes to.  msg: a message is printed and nothing is sent; read, write: the
\* request to send.
RWOutcomeKeyError(cmd, params, map) ==
    IF params = <<>> THEN [kind |-> "msg", text |-> MsgError]
    ELSE LET n == ParseInt(params[1])
             char == DictGet(map, n.val)
         IN IF ~n.ok THEN [kind |-> "msg", text |-> MsgInvalidNumber]
            ELSE IF char = None THEN [kind |-> "msg", text |-> MsgError]
            ELSE IF cmd = ReadWord THEN [kind |-> "read", char |-> char[1]]
            ELSE IF Len(params) < 2 THEN [kind |-> "msg", text |-> MsgNeedsValue]
            ELSE LET v == WriteValue(params[2])
                 IN IF ~v.ok THEN [kind |-> "msg", text |-> MsgInvalidNumber]
                    ELSE [kind |-> "write", char |-> char[1], data |-> v.bytes]

RWOutcome(cmd, params, map) ==
    IF params = <<>> THEN [kind |-> "msg", text |-> MsgError]
    ELSE LET n == ParseInt(params[1])
             char == DictGet(map, n.val)
         IN IF ~n.ok THEN [kind |-> "msg", text |-> MsgInvalidNumber]
            ELSE IF char = None THEN [kind |-> "msg", text |-> MsgInvalidChar]
            ELSE IF cmd = ReadWord THEN [kind |-> "read", char |-> char[1]]
            ELSE IF Len(params) < 2 THEN [kind |-> "msg", text |-> MsgNeedsValue]
            ELSE LET v == WriteValue(params[2])
                 IN IF ~v.ok THEN [kind |-> "msg", text |-> MsgInvalidNumber]
                    ELSE [kind |-> "write", char |-> char[1], data |-> v.bytes]

\* One line read at the session prompt and dispatched (lines 87-128).
Command(line) ==
    /\ pc = "cmd_prompt"
    /\ MainRuns
    /\ cmd_input' = Some(line)
    /\ LET tokens == Split(line)
       IN IF tokens = <<>>
          THEN \* line 88: unpacking an empty list raises ValueError
               /\ out' = <<>>
               /\ LeaveBody("error", "error")
          ELSE LET cmd == Head(tokens)
                   params == Tail(tokens)
               IN IF cmd = HelpWord
                  THEN out' = <<MsgHelp>> /\ LoopCheck
                  ELSE IF cmd = ListWord
                  THEN out' = <<MsgList>> /\ LoopCheck
                  ELSE IF cmd = QuitWord
                  THEN out' = <<>> /\ LeaveBody("none", "quit")
                  ELSE IF cmd \in {ReadWord, WriteWord}
                  THEN LET o == RWOutcome(cmd, params, char_map)
                       IN IF o.kind = "msg"
                          THEN out' = <<o.text>> /\ LoopCheck
                          ELSE /\ out' = <<>>
                               /\ pc' = IF o.kind = "read" THEN "read_wait"
                                                           ELSE "write_wait"
                               /\ pending' = Some(o)
                               /\ UNCHANGED <<shutdown_event, exc, cause, ended,
                                              disconnects>>
                  ELSE out' = <<MsgUnknown>> /\ LoopCheck
    /\ UNCHANGED <<verbose, loop, selVars, services, is_connected, char_map, sigVars,
                   enc, bat>>

\* client.read_gatt_char returned or raised (lines 107-108, 125-126).
ReadDone ==
    /\ pc = "read_wait"
    /\ MainRuns
    /\ \/ is_connected /\ out' = <<MsgValue>>
       \/ out' = <<MsgError>>
    /\ LoopCheck
    /\ UNCHANGED <<verbose, loop, selVars, services, is_connected, char_map, cmd_input, sigVars, enc, bat>>

\* client.write_gatt_char returned or raised (lines 120-121, 125-126).
WriteDone ==
    /\ pc = "write_wait"
    /\ MainRuns
    /\ \/ is_connected /\ out' = <<MsgWrote>>
       \/ out' = <<MsgError>>
    /\ LoopCheck
    /\ UNCHANGED <<verbose, loop, selVars, services, is_connected, char_map, cmd_input, sigVars, enc, bat>>

\* The peripheral drops the connection while the session is suspended.
Drop ==
    /\ pc \in {"cmd_prompt", "read_wait", "write_wait"}
    /\ loop = "running"
    /\ is_connected
    /\ is_connected' = FALSE
    /\ UNCHANGED <<pc, shutdown_event, verbose, loop, selVars, services, char_map,
                   cmd_input, pending, exc, cause, ended, disconnects, out,
                   sigVars, enc, bat>>

\* disconnect() awaited by __aexit__ returned: the exception in flight, if
\* any, goes on to the handlers of lines 130-133.
DisconnectOk ==
    /\ pc = "aexit"
    /\ MainRuns
    /\ is_connected' = FALSE
    /\ SessionOver(CASE exc = "cancelled" -> "cancelled"
                      [] exc = "error" -> "failed"
                      [] OTHER -> "normal")
    /\ UNCHANGED <<verbose, loop, selVars, services, char_map, cmd_input, cause,
                   disconnects, sigVars, enc, bat>>

\* disconnect() raised inside __aexit__: its error replaces the exception
\* in flight and reaches the handler of line 132.
DisconnectFail ==
    /\ pc = "aexit"
    /\ MainRuns
    /\ SessionOver("failed")
    /\ UNCHANGED <<verbose, loop, selVars, services, is_connected, char_map, cmd_input, cause, disconnects, sigVars, enc, bat>>

\* The answer to "Connect to another device?" (lines 148-150), then the
\* loop test of line 139 and the next select_device.
AgainInput ==
    /\ pc = "again_prompt"
    /\ MainRuns
    /\ \E res \in AgainLines :
         IF Lower(res) # <<"y">>
         THEN /\ MainExit
              /\ out' = <<>>
              /\ ForgetSession
              /\ UNCHANGED selVars
         ELSE IF ~shutdown_event
         THEN /\ pc' = "scan"
              /\ scans' = 1
              /\ out' = <<"Scanning for devices...">>
              /\ device' = None
              /\ selection' = None
              /\ ResetSession
              /\ UNCHANGED <<shutdown_event, frames, devices>>
         ELSE /\ MainExit
              /\ out' = <<>>
              /\ ForgetSession
              /\ UNCHANGED selVars
    /\ UNCHANGED <<verbose, loop, sigVars, enc, bat>>

\* asyncio.sleep(0.1) is over: lines 155-156 stop the loop and main() returns.
FinalSleepDone ==
    /\ pc = "final_sleep"
    /\ MainRuns
    /\ loop' = "stopped"
    /\ pc' = "done"
    /\ out' = <<>>
    /\ ForgetSession
    /\ UNCHANGED <<shutdown_event, verbose, selVars, sigVars, enc, bat>>

\* ------------------------------------------- signals and cancellation
\* A CancelledError is thrown into the task of main() where it is suspended.
CancelMain ==
    /\ loop = "running"
    /\ MainTask \in cancels
    /\ ~MainFinished
    /\ cancels' = cancels \ {MainTask}
    /\ CASE pc \in {"start", "again_prompt", "final_sleep"} ->
              \* nothing in main() catches it: the task ends cancelled
              /\ pc' = "cancelled"
              /\ out' = <<>>
              /\ ForgetSession
              /\ UNCHANGED <<shutdown_event, selVars>>
         [] pc = "scan" ->
              \* line 27 is outside the try of its own activation; an outer
              \* activation, if any, catches it at line 57 and returns None
              IF frames = <<>>
              THEN /\ pc' = "cancelled"
                   /\ out' = <<>>
                   /\ UNCHANGED <<shutdown_event, selVars, sessVars>>
              ELSE /\ SelectReturnsNone
                   /\ out' = <<>>
                   /\ UNCHANGED <<selection, sessVars>>
         [] pc = "sel_prompt" ->
              \* lines 57-60
              /\ SelectReturnsNone
              /\ out' = <<>>
              /\ UNCHANGED <<selection, sessVars>>
         [] pc = "connect" ->
              \* raised by __aenter__: line 130
              /\ SessionOver("cancelled")
              /\ selection' = None
              /\ UNCHANGED <<frames, devices, scans, device, services, is_connected,
                             char_map, cmd_input, cause, disconnects>>
         [] pc \in {"cmd_prompt", "read_wait", "write_wait"} ->
              \* CancelledError is no Exception: line 125 lets it through
              /\ LeaveBody("cancelled", "cancel")
              /\ out' = <<>>
              /\ UNCHANGED <<selVars, services, is_connected, char_map, cmd_input>>
         [] pc = "aexit" ->
              \* raised by the disconnect() that __aexit__ awaits, which is
              \* cut short with the link released or not: line 130
              /\ SessionOver("cancelled")
              /\ is_connected' \in {is_connected, FALSE}
              /\ UNCHANGED <<selVars, services, char_map, cmd_input, cause,
                             disconnects>>
    /\ UNCHANGED <<verbose, loop, gs, waits, enc, bat>>

GsTasks == 1..Len(gs)

TaskFinished(t) == IF t = MainTask THEN MainFinished ELSE gs[t] \in {"done", "cancelled"}

\* asyncio.all_tasks(): the tasks that are not done.
AllTasks ==
    (IF MainFinished THEN {} ELSE {MainTask}) \cup {j \in GsTasks : ~TaskFinished(j)}

\* A signal arrives: the handler of line 165 creates a graceful_shutdown task.
Signal ==
    /\ loop = "running"
    /\ pc # "start"
    /\ Len(gs) < MaxSignals
    /\ gs' = Append(gs, "ready")
    /\ waits' = Append(waits, {})
    /\ UNCHANGED <<pc, shutdown_event, verbose, loop, selVars, sessVars, out, cancels, enc, bat>>

\* graceful_shutdown runs up to its await (lines 13-20): sets the event,
\* cancels every other task and gathers them; with nothing to gather it goes
\* on to stop the loop (lines 21-22).
GsRun(i) ==
    /\ loop = "running"
    /\ gs[i] = "ready"
    /\ i \notin cancels
    /\ shutdown_event' = TRUE
    /\ LET tasks == AllTasks \ {i}
       IN /\ cancels' = cancels \cup tasks
          /\ waits' = [waits EXCEPT ![i] = tasks]
          /\ IF tasks = {}
             THEN gs' = [gs EXCEPT ![i] = "done"] /\ loop' = "stopped"
             ELSE gs' = [gs EXCEPT ![i] = "waiting"] /\ UNCHANGED loop
    /\ UNCHANGED <<pc, verbose, selVars, sessVars, out, enc, bat>>

\* Every gathered task is done: lines 21-22 stop the loop.
GsFinish(i) ==
    /\ loop = "running"
    /\ gs[i] = "waiting"
    /\ i \notin cancels
    /\ \A t \in waits[i] : TaskFinished(t)
    /\ gs' = [gs EXCEPT ![i] = "done"]
    /\ loop' = "stopped"
    /\ UNCHANGED <<pc, shutdown_event, verbose, selVars, sessVars, out, waits, cancels,
                   enc, bat>>

\* A cancelled graceful_shutdown task ends with CancelledError: at once when
\* it has not started, and when its gather is over (the cancelled gather
\* raises once all its children are done) otherwise.  It never reaches
\* line 21.
GsCancelled(i) ==
    /\ loop = "running"
    /\ i \in cancels
    /\ \/ gs[i] = "ready"
       \/ gs[i] = "waiting" /\ \A t \in waits[i] : TaskFinished(t)
    /\ gs' = [gs EXCEPT ![i] = "cancelled"]
    /\ cancels' = cancels \ {i}
    /\ UNCHANGED <<pc, shutdown_event, verbose, loop, selVars, sessVars, out, waits, enc, bat>>

Next ==
    \/ MainStart
    \/ ScanDone
    \/ ScanFail
    \/ \E line \in SelLines : SelectInput(line)
    \/ ConnectOk
    \/ ConnectFail
    \/ \E line \in CmdLines : Command(line)
    \/ ReadDone
    \/ WriteDone
    \/ Drop
    \/ DisconnectOk
    \/ DisconnectFail
    \/ AgainInput
    \/ FinalSleepDone
    \/ CancelMain
    \/ Signal
    \/ \E i \in GsTasks : GsRun(i)
    \/ \E i \in GsTasks : GsFinish(i)
    \/ \E i \in GsTasks : GsCancelled(i)

Spec == Init /\ [][Next]_vars

\* ------------------------------------------------- the value encodings
\* The characters value tokens are drawn from: ASCII, and two characters
\* outside it.
EncAlphabet == {"0", "x", "4", "1", "A", "e_acute", "euro_sign"}

EncTokens == SeqsUpTo(EncAlphabet, MaxTok) \ {<<>>}

\* A catalog with a writable characteristic at ordinal 2.
EncCatalog ==
    BuildCatalog(MakeTree(<< <<{"indicate"}, {"read", "write-without-response"}>> >>),
                 FALSE)

\* The 0x spelling of the UTF-8 bytes of a token.
HexSpelling(t) == <<"0", "x">> \o Hex(EncodeUtf8(t))

InitEnc ==
    /\ InitApp
    /\ bat = None
    /\ enc \in {Some([val_str |-> t, hex_str |-> HexSpelling(t), text |-> None,
                      hex |-> None]) : t \in EncTokens}

\* `write 2 <token>` taken through lines 99-120 up to the request.
EncWriteText ==
    /\ enc[1].text = None
    /\ enc' = Some([enc[1] EXCEPT
                      !.text = Some(RWOutcome(WriteWord, << <<"2">>, enc[1].val_str >>,
                                              EncCatalog))])
    /\ UNCHANGED <<pc, shutdown_event, verbose, loop, selVars, sessVars, out, sigVars,
                   bat>>

\* `write 2 0x<hex of the token's UTF-8 bytes>` taken the same way.
EncWriteHex ==
    /\ enc[1].hex = None
    /\ enc' = Some([enc[1] EXCEPT
                      !.hex = Some(RWOutcome(WriteWord, << <<"2">>, enc[1].hex_str >>,
                                             EncCatalog))])
    /\ UNCHANGED <<pc, shutdown_event, verbose, loop, selVars, sessVars, out, sigVars,
                   bat>>

NextEnc == EncWriteText \/ EncWriteHex

SpecEnc == InitEnc /\ [][NextEnc]_vars

\* ================================================================ claims
InSession == pc \in {"cmd_prompt", "read_wait", "write_wait", "aexit"}

\* Every characteristic object of a service tree, as a set.
AllChars(tree) ==
    UNION {{tree[si].characteristics[ci] : ci \in 1..Len(tree[si].characteristics)} :
             si \in 1..Len(tree)}

\* The characteristics of the services that are listed.
PrintedChars(tree, verb) ==
    UNION {{tree[si].characteristics[ci] : ci \in 1..Len(tree[si].characteristics)} :
             si \in {k \in 1..Len(tree) : Printed(tree[k], verb)}}

CatalogValues == {char_map[k] : k \in DOMAIN char_map}

\* C1: the keys of the catalog are exactly 1..N, N the number of catalogued
\* characteristics (one key per characteristic: no gap, no duplicate).
C1_OrdinalsContiguous ==
    /\ DOMAIN char_map = 1..Cardinality(CatalogValues)
    /\ \A a, b \in DOMAIN char_map : char_map[a] = char_map[b] => a = b

\* C1 witness: a catalog of at least two entries built past a service that
\* is not listed.
C1_Witness ==
    /\ pc = "cmd_prompt"
    /\ Cardinality(DOMAIN char_map) >= 2
    /\ Len(services) >= 2
    /\ ~Printed(services[1], verbose)

\* C2 as stated: once the catalog is built every characteristic of every
\* service has an ordinal, so the catalog is as large as the tree.
C2_EveryCharacteristicCatalogued ==
    InSession =>
        /\ CatalogValues = AllChars(services)
        /\ Cardinality(DOMAIN char_map) = Cardinality(AllChars(services))

\* C2 amended: once the catalog is built, the catalogued characteristics
\* are exactly those of the listed services (a service with a readable or
\* writable characteristic, or any service when verbose is on).
C2_PrintedCharacteristicsCatalogued ==
    InSession =>
        /\ CatalogValues = PrintedChars(services, verbose)
        /\ Cardinality(DOMAIN char_map) = Cardinality(PrintedChars(services, verbose))

\* C2 witness: a catalog built from a tree with a listed service, one of
\* whose characteristics is neither readable nor writable, and a service
\* that is not listed.
C2_Witness ==
    /\ pc = "cmd_prompt"
    /\ \E si \in 1..Len(services) : ~Printed(services[si], verbose)
    /\ \E k \in DOMAIN char_map : ~IsRW(char_map[k])

\* What the operator means by a line, written out by hand: the decimal
\* integers among the lines and tokens of the model.
IntTexts == { <<"0">>, <<"1">>, <<"2">>, <<"7">>, <<"-", "1">> }

IntOf(t) ==
    CASE t = <<"0">> -> 0 [] t = <<"1">> -> 1 [] t = <<"2">> -> 2 [] t = <<"7">> -> 7
      [] t = <<"-", "1">> -> 0 - 1

IsQuit(line) == Split(line) # <<>> /\ Head(Split(line)) = QuitWord

\* C3 as stated: every line other than quit is answered with a message and
\* the loop goes on; only quit, a detected disconnect or cancellation makes
\* control leave the loop.
C3_OnlyQuitDisconnectCancelEndLoop ==
    /\ cause \in {"none", "quit", "disconnect", "cancel"}
    /\ cause = "quit" => cmd_input # None /\ IsQuit(cmd_input[1])
    /\ (pc = "cmd_prompt" /\ cmd_input # None) => out # <<>>

\* `read n` with n an integer that is no key of the catalog
ReadsMissing(line, map) ==
    LET t == Split(line)
    IN Len(t) >= 2 /\ t[1] = ReadWord /\ t[2] \in IntTexts /\ IntOf(t[2]) \notin DOMAIN map

\* C4: `read n` with n no key of the catalog sends no request to the
\* device, prints the invalid-characteristic-number message and leaves the
\* catalog and the connection as they are; with the connection live the
\* next prompt follows.
C4_ReadUnknownOrdinal ==
    [][\A line \in CmdLines :
         (Command(line) /\ ReadsMissing(line, char_map)) =>
            /\ pc' \notin {"read_wait", "write_wait"}
            /\ pending' = None
            /\ out' = <<MsgInvalidChar>>
            /\ char_map' = char_map
            /\ is_connected' = is_connected
            /\ is_connected => pc' = "cmd_prompt" /\ disconnects' = 0]_vars

\* C4 witness: `read 7` answered at a live prompt with a non-empty catalog
\* that has no 7.
C4_Witness ==
    /\ pc = "cmd_prompt"
    /\ cmd_input = Some(Join2(ReadWord, <<"7">>))
    /\ out = <<MsgInvalidChar>>
    /\ DOMAIN char_map # {}
    /\ is_connected

\* the remainder of a 0x value that is no sequence of hexadecimal bytes
BadHexText(rest) ==
    \/ Len(rest) % 2 = 1
    \/ \E i \in 1..Len(rest) : rest[i] \notin HexChars

\* `write <n> <value>` with a 0x value whose remainder is no valid hex
WritesBadHex(line) ==
    LET t == Split(line)
    IN /\ Len(t) >= 3
       /\ t[1] = WriteWord
       /\ Len(t[3]) >= 2 /\ SubSeq(t[3], 1, 2) = <<"0", "x">>
       /\ BadHexText(SubSeq(t[3], 3, Len(t[3])))

\* C5: a write whose 0x value is not valid hexadecimal bytes sends nothing
\* to the device, prints an error message, and with the connection live the
\* next prompt follows.
C5_BadHexNotWritten ==
    [][\A line \in CmdLines :
         (Command(line) /\ WritesBadHex(line)) =>
            /\ pc' \notin {"read_wait", "write_wait"}
            /\ pending' = None
            /\ out' \in {<<MsgInvalidNumber>>, <<MsgInvalidChar>>}
            /\ is_connected => pc' = "cmd_prompt"]_vars

\* C5 witness: `write 1 0xZZ` to a catalogued ordinal, answered at a live
\* prompt.
C5_Witness ==
    /\ pc = "cmd_prompt"
    /\ cmd_input = Some(Join3(WriteWord, <<"1">>, <<"0", "x", "Z", "Z">>))
    /\ 1 \in DOMAIN char_map
    /\ out = <<MsgInvalidNumber>>
    /\ is_connected

\* C6: a text token (one that does not begin with 0x, so that line 118
\* encodes it) and the 0x spelling of its UTF-8 bytes send the same bytes to
\* the same characteristic; `write n A` and `write n 0x41` both send the
\* single byte 0x41.
C6_TextAndHexAgree ==
    (enc # None /\ enc[1].text # None /\ enc[1].hex # None) =>
        LET e == enc[1]
            t == e.val_str
        IN /\ ~(Len(t) >= 2 /\ t[1] = "0" /\ t[2] = "x") =>
                 /\ e.text[1].kind = "write"
                 /\ e.hex[1].kind = "write"
                 /\ e.text[1].data = e.hex[1].data
                 /\ e.text[1].char = e.hex[1].char
           /\ t = <<"A">> =>
                 /\ e.hex_str = <<"0", "x", "4", "1">>
                 /\ e.text[1].data = <<65>>
                 /\ e.hex[1].data = <<65>>

\* C6 witness: a token outside ASCII written both ways, two bytes each.
C6_Witness ==
    /\ enc # None
    /\ enc[1].val_str = <<"e_acute">>
    /\ enc[1].text # None
    /\ enc[1].hex # None
    /\ enc[1].hex[1].kind = "write"
    /\ enc[1].hex[1].data = <<195, 169>>

\* C7 as stated: a session whose connection was established attempts the
\* disconnect exactly once however its body is left, and when cancellation
\* made control leave the body it is the cancellation that the session's
\* handlers see, not an error of the disconnect.
C7_DisconnectOnceCancellationKept ==
    /\ pc \in {"cmd_prompt", "read_wait", "write_wait"} => disconnects = 0
    /\ pc = "aexit" => disconnects = 1
    /\ (ended # "none" /\ cause # "none") =>
          /\ disconnects = 1
          /\ cause = "cancel" => ended = "cancelled"

\* C8: a failed connect is reported, no command is read, and main() goes on
\* to the "connect to another device" prompt with the loop running, unless
\* cancellation has fired.
C8_ConnectFailureReturnsToMain ==
    [][ConnectFail =>
          /\ out' = <<MsgFailed, MsgDisconnected>>
          /\ cmd_input' = None /\ char_map' = EmptyDict
          /\ disconnects' = 0
          /\ loop' = "running"
          /\ pc' \in {"again_prompt", "final_sleep"}
          /\ ~shutdown_event => pc' = "again_prompt" /\ ~shutdown_event']_vars

\* C8 witness: main() at the "connect to another device" prompt after a
\* connect that failed.
C8_Witness ==
    /\ pc = "again_prompt"
    /\ ended = "failed"
    /\ cause = "none"
    /\ out = <<MsgFailed, MsgDisconnected>>
    /\ ~shutdown_event

\* C9: at the selection prompt an integer i with 0 <= i < len(list) makes
\* select_device return list[i]; any other line but q and s (not a number,
\* or a number out of range, negative ones included) is answered with an
\* error message and the same prompt again.
C9_SelectionByIndex ==
    [][\A line \in SelLines \ {<<"q">>, <<"Q">>, <<"s">>, <<"S">>} :
         SelectInput(line) =>
            LET list == frames[Len(frames)]
            IN IF line \in IntTexts /\ 0 <= IntOf(line) /\ IntOf(line) < Len(list)
               THEN /\ device' = Some(list[IntOf(line) + 1])
                    /\ pc' = "connect"
               ELSE /\ pc' = "sel_prompt"
                    /\ frames' = frames
                    /\ device' = None
                    /\ out' = <<IF line \in IntTexts THEN MsgInvalidNumberRetry
                                                       ELSE MsgInvalidInput>>]_vars

\* C9 witness: the list is Thermo, Lock and the operator entered 1: the
\* session is opened against Lock.
C9_Witness ==
    /\ pc = "connect"
    /\ selection = Some(<<"1">>)
    /\ device = Some(Lock)

\* The named devices of a scan result, in scan order.
NamedOf(result) == SelectSeq(result, LAMBDA d : d.name \notin {NoName, ""})

\* C10: each s or S at the selection prompt starts exactly one discovery,
\* the next prompt is shown when that discovery is over, and an index
\* entered then is resolved against the result of the latest discovery.
C10_RescanThenNewestList ==
    [][/\ \A line \in {<<"s">>, <<"S">>} :
            SelectInput(line) => scans' = scans + 1 /\ pc' = "scan"
       /\ (pc = "scan" /\ pc' = "sel_prompt") => scans' = scans
       /\ (pc = "scan" /\ pc' = "sel_prompt") => devices' \in ScanResults
       /\ \A line \in IntTexts \cap SelLines :
            (SelectInput(line) /\ pc' = "connect") =>
                /\ IntOf(line) + 1 \in 1..Len(NamedOf(devices))
                /\ device' = Some(NamedOf(devices)[IntOf(line) + 1])]_vars

\* C10 witness: the prompt shown after an s, over the list of the second
\* discovery, which differs from the first.
C10_Witness ==
    /\ pc = "sel_prompt"
    /\ selection \in {Some(<<"s">>), Some(<<"S">>)}
    /\ scans = 2
    /\ Len(frames) = 2
    /\ frames[1] = <<Thermo, Lock>>
    /\ frames[2] = <<Lock, Thermo>>

\* main() is past its loop: in the final sleep, returned, or cancelled.
ShutdownPhase == pc \in {"final_sleep", "done", "cancelled"}

Fairness ==
    /\ WF_vars(MainStart)
    /\ WF_vars(ScanDone \/ ScanFail)
    /\ WF_vars(ConnectOk \/ ConnectFail)
    /\ WF_vars(ReadDone)
    /\ WF_vars(WriteDone)
    /\ WF_vars(DisconnectOk \/ DisconnectFail)
    /\ WF_vars(FinalSleepDone)
    /\ WF_vars(CancelMain)
    /\ WF_vars(\E i \in GsTasks : GsRun(i))
    /\ WF_vars(\E i \in GsTasks : GsFinish(i))
    /\ WF_vars(\E i \in GsTasks : GsCancelled(i))

SpecFair == Spec /\ Fairness

\* The loop of main() (lines 139-150) is over, whatever ended it.
MainLoopOver == pc \in {"final_sleep", "done", "cancelled", "crashed"}

\* C12 as stated: once the loop of main() is over for any reason, an error
\* of discovery included, the event is eventually set and the event loop is
\* eventually stopped.
C12_LoopEndLeadsToStop ==
    MainLoopOver ~> (shutdown_event /\ loop = "stopped")

\* main() is inside explore_and_interact.
SessionPcs == {"connect", "cmd_prompt", "read_wait", "write_wait", "aexit"}

\* C13: once the event is set while a session is under way (connecting, or
\* connected with the catalog built), the session's end takes main() straight
\* to its shutdown lines: the "connect to another device" prompt is not
\* shown and no selection, discovery or connect is started from then on.
C13_NoPromptAfterCancelledSession ==
    [][/\ (shutdown_event /\ pc \in SessionPcs) =>
              /\ pc' \in SessionPcs \cup {"final_sleep"}
              /\ pc' = "connect" => pc = "connect"
              /\ scans' = 0
              /\ frames' = <<>>
              /\ device' = device
       /\ (shutdown_event /\ ShutdownPhase) =>
              /\ ShutdownPhase'
              /\ scans' = scans
              /\ frames' = frames]_vars

\* C13 witness: main() in its final sleep after a session that the
\* cancellation ended.
C13_Witness ==
    /\ pc = "final_sleep"
    /\ ended = "cancelled"
    /\ out = <<MsgCancelled, MsgDisconnected>>
    /\ shutdown_event

\* C14: the event is one-shot: no step clears it once it is set, and each
\* of its two setters (graceful_shutdown at line 14, main() at line 152)
\* leaves it set whether or not it was set before.
C14_EventOneShot ==
    [][/\ shutdown_event => shutdown_event'
       /\ (\E i \in GsTasks : GsRun(i)) => shutdown_event'
       /\ (pc # "final_sleep" /\ pc' = "final_sleep") => shutdown_event']_vars

\* C14 witness: the event set twice, by graceful_shutdown and then by main()
\* on its way out.
C14_Witness ==
    /\ shutdown_event
    /\ pc = "final_sleep"
    /\ gs # <<>>
    /\ gs[1] = "waiting"
    /\ MainTask \in waits[1]

\* A step of the session that ends at the loop test of line 86: the catalog
\* was just built, a device request returned, or a line was answered.
LoopTested ==
    \/ ConnectOk
    \/ ReadDone
    \/ WriteDone
    \/ \E line \in CmdLines :
         /\ Command(line)
         /\ pc' \notin {"read_wait", "write_wait"}
         /\ cause' \notin {"quit", "error"}

Occurrences(seq, x) == Cardinality({i \in DOMAIN seq : seq[i] = x})

\* C15: at each loop test the session goes on to the prompt exactly when
\* the connection is live and the event is not set; otherwise the loop is
\* left, no further line is read in the session, "Disconnected." is printed
\* exactly once, when the session ends, and control is back in main().
C15_LoopEndsOnDisconnectOrEvent ==
    [][/\ LoopTested =>
              IF is_connected' /\ ~shutdown_event
              THEN pc' = "cmd_prompt"
              ELSE /\ pc' = "aexit"
                   /\ exc' = "none"
                   /\ cause' = (IF ~is_connected' THEN "disconnect" ELSE "cancel")
       /\ pc = "aexit" =>
              /\ pc' \in {"aexit", "again_prompt", "final_sleep"}
              /\ cmd_input' = cmd_input
              /\ pc' # "aexit" => Occurrences(out', MsgDisconnected) = 1
       /\ pc' \in SessionPcs => Occurrences(out', MsgDisconnected) = 0]_vars

\* C15 witness: main() at its prompt after a session whose loop test found
\* the connection gone.
C15_Witness ==
    /\ pc = "again_prompt"
    /\ cause = "disconnect"
    /\ ended = "normal"
    /\ disconnects = 1
    /\ out = <<MsgDisconnected>>

\* ------------------------------------------------ read_battery.py
MaxBatScan == 3
MaxRounds == 2

Lock1 == [name |-> "Lock", address |-> "L1"]
Lock2 == [name |-> "Lock", address |-> "L2"]
LowLock == [name |-> "lock", address |-> "L3"]

RECURSIVE Distinct(_)
Distinct(seq) ==
    \/ seq = <<>>
    \/ /\ \A i \in 1..Len(Tail(seq)) : Tail(seq)[i] # Head(seq)
       /\ Distinct(Tail(seq))

\* What BleakScanner.discover may return to the battery reader (line 9).
BatScanResults ==
    {r \in SeqsUpTo({Lock1, Lock2, LowLock, Anon}, MaxBatScan) : Distinct(r)}

\* --name and --address as given on the command line, None when absent.
BatNameArgs == {NoName, "Lock", "lock"}
BatAddressArgs == {NoName, "L9"}

\* Lines typed at "Command (q to quit): " (line 43).
BatLines == { <<"q">>, <<"Q">>, <<" ", "q", " ">>, <<"x">>, <<>> }

MsgBatScanning == "Scanning for device named"
MsgBatFound == "Found device"
MsgBatNotFound == "Device not found"
MsgBatLevel == "Battery level"
MsgBatReadFailed == "Failed to read battery level"
MsgBatNotConnected == "Failed to connect to device."
MsgBatConnFailed == "Connection failed"
MsgBatDiscError == "Disconnection error"

\* The loop of get_address_from_name with the latest match kept.
RECURSIVE GetAddressFromNameLast(_, _)
GetAddressFromNameLast(name, devs) ==
    IF devs = <<>> THEN NoName
    ELSE IF devs[Len(devs)].name = name THEN devs[Len(devs)].address
    ELSE GetAddressFromNameLast(name, SubSeq(devs, 1, Len(devs) - 1))

\* get_address_from_name (lines 10-15): the address of the first device
\* whose name equals `name`, None when there is none.
RECURSIVE GetAddressFromName(_, _)
GetAddressFromName(name, devs) ==
    IF devs = <<>> THEN NoName
    ELSE IF Head(devs).name = name THEN Head(devs).address
    ELSE GetAddressFromName(name, Tail(devs))

appVars == <<pc, shutdown_event, verbose, loop, selVars, sessVars, out, sigVars, enc>>

\* The locals of main() of read_battery.py.
B == bat[1]

InitBat ==
    /\ InitApp
    /\ enc = None
    /\ bat \in {Some([pc |-> "start", name |-> n, address |-> a, devices |-> <<>>,
                      scanned |-> FALSE, target |-> NoName, is_connected |-> FALSE,
                      connects |-> 0, prompts |-> 0, out |-> <<>>]) :
                  n \in BatNameArgs, a \in BatAddressArgs} \ 
               {Some([pc |-> "start", name |-> NoName, address |-> NoName,
                      devices |-> <<>>, scanned |-> FALSE, target |-> NoName,
                      is_connected |-> FALSE, connects |-> 0, prompts |-> 0,
                      out |-> <<>>])}

\* Lines 24-27: an iteration of the loop starts and connects to `address`.
BatConnect(b, printed) ==
    [b EXCEPT !.pc = "connect", !.target = b.address, !.connects = @ + 1,
              !.out = printed]

\* Lines 18-19, or lines 23-27 when no scan is called for.
BatStart ==
    /\ B.pc = "start"
    /\ IF ~Truthy(B.address) /\ Truthy(B.name)
       THEN bat' = Some([B EXCEPT !.pc = "scan", !.out = <<MsgBatScanning>>])
       ELSE bat' = Some(BatConnect(B, <<>>))
    /\ UNCHANGED appVars

\* discover returned: lines 10-15, then lines 20-27.
BatScanDone ==
    /\ B.pc = "scan"
    /\ \E result \in BatScanResults :
         LET address == GetAddressFromName(B.name, result)
             b == [B EXCEPT !.devices = result, !.scanned = TRUE, !.address = address]
         IN IF ~Truthy(address)
            THEN bat' = Some([b EXCEPT !.pc = "done", !.out = <<MsgBatNotFound>>])
            ELSE bat' = Some(BatConnect(b, <<MsgBatFound>>))
    /\ UNCHANGED appVars

\* discover raised: nothing catches it.
BatScanFail ==
    /\ B.pc = "scan"
    /\ bat' = Some([B EXCEPT !.pc = "crashed", !.out = <<>>])
    /\ UNCHANGED appVars

\* client.connect returned or raised (lines 27-28, 34-37).
BatConnectDone ==
    /\ B.pc = "connect"
    /\ \/ bat' = Some([B EXCEPT !.pc = "read", !.is_connected = TRUE, !.out = <<>>])
       \/ bat' = Some([B EXCEPT !.pc = "disconnect", !.out = <<MsgBatNotConnected>>])
       \/ bat' = Some([B EXCEPT !.pc = "disconnect", !.out = <<MsgBatConnFailed>>])
    /\ UNCHANGED appVars

\* read_gatt_char returned or raised (lines 30-33, 36-37).
BatReadDone ==
    /\ B.pc = "read"
    /\ \E printed \in {MsgBatLevel, MsgBatReadFailed, MsgBatConnFailed} :
         bat' = Some([B EXCEPT !.pc = "disconnect", !.out = <<printed>>])
    /\ UNCHANGED appVars

\* client.disconnect returned or raised (lines 38-42).
BatDisconnectDone ==
    /\ B.pc = "disconnect"
    /\ \/ bat' = Some([B EXCEPT !.pc = "command", !.is_connected = FALSE, !.out = <<>>])
       \/ bat' = Some([B EXCEPT !.pc = "command", !.out = <<MsgBatDiscError>>])
    /\ UNCHANGED appVars

\* Line 43 and the loop test of line 24.
BatCommand ==
    /\ B.pc = "command"
    /\ B.prompts < MaxRounds
    /\ \E line \in BatLines :
         LET command == Lower(Strip(line))
             b == [B EXCEPT !.prompts = @ + 1]
         IN IF command = <<"q">>
            THEN bat' = Some([b EXCEPT !.pc = "done", !.out = <<>>])
            ELSE bat' = Some(BatConnect(b, <<>>))
    /\ UNCHANGED appVars

NextBat ==
    \/ BatStart
    \/ BatScanDone
    \/ BatScanFail
    \/ BatConnectDone
    \/ BatReadDone
    \/ BatDisconnectDone
    \/ BatCommand

SpecBat == InitBat /\ [][NextBat]_vars

\* The places of the devices named `name` in a scan result.
Matches(name, devs) == {i \in 1..Len(devs) : devs[i].name = name}

Least(S) == CHOOSE i \in S : \A j \in S : i <= j

\* C16: once the battery reader has scanned for a name, if no device of the
\* result has exactly that name it has printed "Device not found" and ended
\* with no connect and no prompt; otherwise every connect is to the address
\* of the first device of the result that has the name.
C16_BatteryFirstExactMatch ==
    (bat # None /\ B.scanned) =>
        LET m == Matches(B.name, B.devices)
        IN IF m = {}
           THEN /\ B.pc = "done"
                /\ B.out = <<MsgBatNotFound>>
                /\ B.connects = 0
                /\ B.prompts = 0
                /\ B.target = NoName
                /\ ~B.is_connected
           ELSE /\ B.connects >= 1
                /\ B.target = B.devices[Least(m)].address

\* C16 witness: the scan for "Lock" found only "lock": not found, no connect.
C16_Witness ==
    /\ bat # None
    /\ B.scanned
    /\ B.name = "Lock"
    /\ B.devices = <<Anon, LowLock>>
    /\ B.pc = "done"
    /\ B.out = <<MsgBatNotFound>>

\* C17 as stated: whatever the interleaving of signals, a handler sets the
\* event before it cancels, has waited for every task it gathered when it
\* is done, and the event loop is stopped only with main() finished and no
\* connection live.
C17_ShutdownOrdering ==
    /\ cancels # {} => shutdown_event
    /\ \A i \in GsTasks :
         /\ gs[i] \in {"waiting", "done"} => shutdown_event
         /\ gs[i] = "done" => \A t \in waits[i] : TaskFinished(t)
    /\ loop = "stopped" => MainFinished /\ ~is_connected

\* C18 as stated: however many rescans were asked for, select_device holds
\* one pending selection loop and the result of the latest discovery only.
C18_RescanKeepsOneActivation ==
    /\ Len(frames) <= 1
    /\ pc = "sel_prompt" => frames = <<NamedOf(devices)>>

\* a line whose command name is `write`
IsWrite(line) == Split(line) # <<>> /\ Head(Split(line)) = WriteWord

\* C19 as stated: a write is sent to the device only for a `write` line
\* with exactly two arguments; with fewer a message is printed and nothing
\* is sent, with more nothing is sent either.
C19_WriteNeedsExactlyTwoArguments ==
    [][\A line \in CmdLines :
         (Command(line) /\ IsWrite(line)) =>
            LET params == Tail(Split(line))
            IN /\ pc' = "write_wait" => Len(params) = 2
               /\ Len(params) # 2 => pending' = None
               /\ Len(params) < 2 => out' # <<>>]_vars

\* main() is in the session with the catalog built.
Connected == pc \in {"cmd_prompt", "read_wait", "write_wait", "aexit"}

\* A line that asks for a request the parsing accepts: read or write, an
\* integer that is a key of the catalog, and for a write a value that is
\* text or well-formed 0x hexadecimal.
AsksRequest(line, map) ==
    LET t == Split(line)
    IN /\ Len(t) >= 2
       /\ t[1] \in {ReadWord, WriteWord}
       /\ t[2] \in IntTexts
       /\ IntOf(t[2]) \in DOMAIN map
       /\ t[1] = WriteWord =>
             /\ Len(t) >= 3
             /\ StartsWith0x(t[3]) => ~BadHexText(SubSeq(t[3], 3, Len(t[3])))

\* C20: the catalog of a connection stays the one built at connect time;
\* `read n` and `write n` both address the characteristic catalogued at n;
\* help, list, unknown commands and lines rejected at parsing send nothing
\* to the device.
C20_CatalogFixedAndAddressing ==
    [][/\ (Connected /\ Connected') =>
              /\ char_map' = char_map
              /\ services' = services
              /\ char_map = BuildCatalog(services, verbose)
       /\ \A line \in CmdLines :
            Command(line) =>
               IF AsksRequest(line, char_map)
               THEN /\ pending' # None
                    /\ pending'[1].char = char_map[IntOf(Split(line)[2])]
                    /\ pending'[1].kind =
                          (IF Split(line)[1] = ReadWord THEN "read" ELSE "write")
                    /\ pc' = (IF Split(line)[1] = ReadWord THEN "read_wait"
                                                          ELSE "write_wait")
               ELSE /\ pending' = None
                    /\ pc' \notin {"read_wait", "write_wait"}]_vars

\* C20 witness: a write to ordinal 1 in flight, carrying the characteristic
\* catalogued at 1 in a catalog of two or more that is still the one built
\* at connect time.
C20_Witness ==
    /\ pc = "write_wait"
    /\ pending # None
    /\ pending[1].char = char_map[1]
    /\ Cardinality(DOMAIN char_map) >= 2
    /\ char_map = BuildCatalog(services, verbose)

====
